---- MODULE Spec2Model ----
(***************************************************************************)
(* Thermography imaging pipeline (Acquisition, IQA, Preprocessing,         *)
(* Enrichment, DefectDetection) driven by client_code.                     *)
(*                                                                         *)
(* Strings are sequences of one-character strings so that re.sub,          *)
(* re.split and the substring test `in` are computed as Python computes    *)
(* them.  A path is the record [dir, name] standing for join(dir, name);   *)
(* its text is PathStr(p).                                                 *)
(***************************************************************************)
EXTENDS Integers, Sequences, FiniteSets, TLC

(***************************************************************************)
(* Text helpers                                                            *)
(***************************************************************************)
Range(f) == {f[i] : i \in DOMAIN f}

Digits == {"0", "1", "2", "3", "4", "5", "6", "7", "8", "9"}

\* number of consecutive digits of s starting at index i
RECURSIVE DigitRun(_, _)
DigitRun(s, i) ==
    IF i <= Len(s) /\ s[i] \in Digits THEN 1 + DigitRun(s, i + 1) ELSE 0

IsHzAt(s, i) == i + 1 <= Len(s) /\ s[i] = "H" /\ s[i + 1] = "z"

\* length of the match of [0-9]+_?[0-9]*Hz anchored at index i, 0 if none
FreqMatchLen(s, i) ==
    LET n1 == DigitRun(s, i)
        j  == i + n1
    IN  IF n1 = 0 THEN 0
        ELSE IF IsHzAt(s, j) THEN n1 + 2
        ELSE IF j <= Len(s) /\ s[j] = "_"
             THEN LET n2 == DigitRun(s, j + 1)
                  IN  IF IsHzAt(s, j + 1 + n2) THEN n1 + 1 + n2 + 2 ELSE 0
             ELSE 0

\* re.sub("[0-9]+_?[0-9]*Hz", "", s): leftmost non-overlapping matches removed
RECURSIVE StripFrom(_, _)
StripFrom(s, i) ==
    IF i > Len(s) THEN << >>
    ELSE LET m == FreqMatchLen(s, i)
         IN  IF m > 0 THEN StripFrom(s, i + m)
             ELSE <<s[i]>> \o StripFrom(s, i + 1)

StripFreq(s) == StripFrom(s, 1)

\* index of the first double whitespace of s at or after i, 0 if none
RECURSIVE FindDoubleSpace(_, _)
FindDoubleSpace(s, i) ==
    IF i + 1 > Len(s) THEN 0
    ELSE IF s[i] = " " /\ s[i + 1] = " " THEN i
    ELSE FindDoubleSpace(s, i + 1)

\* re.split('\s\s', s) has at least two elements
HasSplit(s) == FindDoubleSpace(s, 1) > 0

\* re.split('\s\s', s)[0]
SplitPrefix(s) == SubSeq(s, 1, FindDoubleSpace(s, 1) - 1)

\* re.split('\s\s', s)[1]
SplitSuffix(s) ==
    LET i    == FindDoubleSpace(s, 1)
        rest == SubSeq(s, i + 2, Len(s))
        j    == FindDoubleSpace(rest, 1)
    IN  IF j = 0 THEN rest ELSE SubSeq(rest, 1, j - 1)

\* Python's `sub in s` on strings
Contains(sub, s) ==
    \E i \in 0..(Len(s) - Len(sub)) : SubSeq(s, i + 1, i + Len(sub)) = sub

\* re.sub("  ", " ", s)
RECURSIVE CollapseFrom(_, _)
CollapseFrom(s, i) ==
    IF i > Len(s) THEN << >>
    ELSE IF i + 1 <= Len(s) /\ s[i] = " " /\ s[i + 1] = " "
         THEN <<" ">> \o CollapseFrom(s, i + 2)
         ELSE <<s[i]>> \o CollapseFrom(s, i + 1)

CollapseDoubleSpace(s) == CollapseFrom(s, 1)

EndsWith(s, t) ==
    Len(t) <= Len(s) /\ SubSeq(s, Len(s) - Len(t) + 1, Len(s)) = t

(***************************************************************************)
(* File names of the input universe                                        *)
(***************************************************************************)
Png == <<".", "p", "n", "g">>
Hz(f) == <<" ">> \o f \o <<"H", "z", " ", "S">> \o Png

nB1  == <<"B">> \o Hz(<<"1">>)
nB2  == <<"B">> \o Hz(<<"2">>)
nB7  == <<"B">> \o Hz(<<"7">>)
nBC1 == <<"B", "C">> \o Hz(<<"1">>)
nBC2 == <<"B", "C">> \o Hz(<<"2">>)
nBC3 == <<"B", "C">> \o Hz(<<"3">>)
n71  == <<"7">> \o Hz(<<"1">>)
n72  == <<"7">> \o Hz(<<"2">>)
n705 == <<"7">> \o Hz(<<"0", "_", "5">>)
nX   == <<"X">> \o Png

Names == {nB1, nB2, nB7, nBC1, nBC2, nBC3, n71, n72, n705, nX}

\* names written by Enrichment: the group key with "  " collapsed
CompositeNames == {CollapseDoubleSpace(StripFreq(n)) : n \in Names}

\* a fixed enumeration of every file name, the base of directory listings
Listing ==
    <<nB1, nB2, nB7, nBC1, nBC2, nBC3, n71, n72, n705, nX,
      CollapseDoubleSpace(StripFreq(nB1)), CollapseDoubleSpace(StripFreq(nBC1)),
      CollapseDoubleSpace(StripFreq(n71))>>

Reverse(s) == [i \in 1..Len(s) |-> s[Len(s) + 1 - i]]

\* rotation that also breaks up the members of each group
Shuffle(s) == [i \in 1..Len(s) |-> s[((i * 5) % Len(s)) + 1]]

\* the orders in which the operating system may list a directory
ListingOrders == {Listing, Reverse(Listing), Shuffle(Listing)}

(***************************************************************************)
(* Directories and the file system                                         *)
(***************************************************************************)
Join(d, n) == d \o <<"/">> \o n

WorkingDirectory ==
    <<".", "/", "W", "o", "r", "k", "i", "n", "g", "_",
      "d", "i", "r", "e", "c", "t", "o", "r", "y">>

AcqDir == Join(WorkingDirectory,
    <<"1", ".", "A", "c", "q", "u", "i", "r", "e", "d", "_",
      "i", "m", "a", "g", "e", "s">>)
IQADir == Join(WorkingDirectory,
    <<"2", ".", "I", "Q", "A", "_", "i", "m", "a", "g", "e", "s">>)
PreDir == Join(WorkingDirectory,
    <<"3", ".", "P", "r", "e", "p", "r", "o", "c", "e", "s", "s", "e", "d", "_",
      "i", "m", "a", "g", "e", "s">>)
EnrDir == Join(WorkingDirectory,
    <<"4", ".", "E", "n", "r", "i", "c", "h", "m", "e", "n", "t", "_",
      "i", "m", "a", "g", "e", "s">>)
DefDir == Join(WorkingDirectory,
    <<"5", ".", "D", "e", "f", "e", "c", "t", "D", "e", "t", "e", "c", "t", "e", "d", "_",
      "i", "m", "a", "g", "e", "s">>)

\* the directory the parameter file names for Acquisition, and one that
\* does not exist
InputDir   == <<"/", "d", "a", "t", "a">>
MissingDir == <<"/", "n", "o", "n", "e">>

StageDirs == {AcqDir, IQADir, PreDir, EnrDir, DefDir}
Dirs      == StageDirs \cup {InputDir, MissingDir}

\* text of a path record, as glob returns it: join(dir, name)
PathStr(p) == Join(p.dir, p.name)

\* os.path.basename of a globbed path
basename(p) == p.name

EmptyFiles == [n \in {} |-> 0]
AbsentDir  == [exists |-> FALSE, files |-> EmptyFiles]

\* os.path.exists(d)
exists(fsys, d) == fsys[d].exists

FileExists(fsys, p) == exists(fsys, p.dir) /\ p.name \in DOMAIN fsys[p.dir].files

ReadFile(fsys, p) == fsys[p.dir].files[p.name]

WriteFile(fsys, d, n, c) ==
    [fsys EXCEPT ![d].files =
        [m \in (DOMAIN fsys[d].files) \cup {n} |->
            IF m = n THEN c ELSE fsys[d].files[m]]]

(***************************************************************************)
(* Images                                                                  *)
(***************************************************************************)
\* pixel dimensions of the image acquired under name n
SizeOf(n) == IF n = nB7 THEN 32 ELSE 64

\* the single-channel image acquired under name n
Gray(n) == [mode |-> "L", size |-> SizeOf(n), src |-> n, proc |-> << >>]

filetypes ==
    << <<".", "p", "n", "g">>, <<".", "j", "p", "g">>,
       <<".", "t", "i", "f", "f">>, <<".", "j", "p", "e", "g">> >>

filetypes_npy == filetypes \o << <<".", "n", "p", "y">> >>

\* glob.glob(join(d, "*" + ext)) with the directory listed in order ord
GlobOne(fsys, d, ext, ord) ==
    LET hit(n) == n \in DOMAIN fsys[d].files /\ EndsWith(n, ext)
        names  == SelectSeq(ord, hit)
    IN  [i \in 1..Len(names) |-> [dir |-> d, name |-> names[i]]]

\* the loop `for filetype in self.filetypes: list.extend(glob.glob(...))`
RECURSIVE GlobAll(_, _, _, _, _)
GlobAll(fsys, d, types, i, ord) ==
    IF i > Len(types) \/ ~exists(fsys, d) THEN << >>
    ELSE GlobOne(fsys, d, types[i], ord) \o GlobAll(fsys, d, types, i + 1, ord)

\* mutant of RemoveAll: the old entries are kept, new files are merged in
RemoveAll_keep(files) == files

\* the listdir/remove loop of save_images: every entry of d is removed
RemoveAll(files) == EmptyFiles

\* mutant of PrepareDir: every directory of the working directory is emptied
PrepareDir_all(fsys, d) ==
    [e \in DOMAIN fsys |->
        IF e = d \/ (e \in StageDirs /\ fsys[e].exists)
        THEN [exists |-> TRUE, files |-> EmptyFiles] ELSE fsys[e]]

\* head of every save_images: makedirs, or empty the existing directory
PrepareDir(fsys, d) ==
    [fsys EXCEPT ![d] =
        [exists |-> TRUE,
         files  |-> IF exists(fsys, d) THEN RemoveAll(fsys[d].files)
                    ELSE EmptyFiles]]

\* shutil.copyfile over paths[i..]; stops at the first missing source
RECURSIVE CopyFiles(_, _, _, _)
CopyFiles(fsys, paths, i, d) ==
    IF i > Len(paths) THEN [fs |-> fsys, ok |-> TRUE]
    ELSE IF ~FileExists(fsys, paths[i]) THEN [fs |-> fsys, ok |-> FALSE]
    ELSE CopyFiles(WriteFile(fsys, d, basename(paths[i]), ReadFile(fsys, paths[i])),
                   paths, i + 1, d)

(***************************************************************************)
(* Frequency-group matching (IQA.Asses, Preprocess/Enrichment.load_images) *)
(***************************************************************************)
\* the elements of uip: basename with the frequency token removed
KeyOf(p) == StripFreq(basename(p))

\* set(uip)
Keys(image_paths) == {KeyOf(p) : p \in Range(image_paths)}

\* the two list comprehensions: paths whose text contains split_path[0]
\* and split_path[1]
corresponding_paths(image_paths, key) ==
    LET has0(p) == Contains(SplitPrefix(key), PathStr(p))
        has1(p) == Contains(SplitSuffix(key), PathStr(p))
    IN  SelectSeq(SelectSeq(image_paths, has0), has1)

\* keys for which split_path[1] raises IndexError
IndexErrorKeys(image_paths) == {k \in Keys(image_paths) : ~HasSplit(k)}

\* mutant of AssertErrorKeys: the size of a group is never checked
AssertErrorKeys_unchecked(image_paths) == {}

\* keys for which `assert len(corresponding_paths) == 3` fails
AssertErrorKeys(image_paths) ==
    {k \in Keys(image_paths) :
        HasSplit(k) /\ Len(corresponding_paths(image_paths, k)) # 3}

\* every path some key selects
SelectedPaths(image_paths) ==
    UNION {Range(corresponding_paths(image_paths, k)) : k \in Keys(image_paths)}

\* all orders in which a set can be iterated
Orderings(S) ==
    {q \in [1..Cardinality(S) -> S] : \A i, j \in DOMAIN q : i # j => q[i] # q[j]}

(***************************************************************************)
(* Quality gate                                                            *)
(***************************************************************************)
\* default of BrisqueThreshold, the value of the example parameter file
Brisque_threshold == 70

\* the values brisq.get_score may return for an image
ScoreVals == {Brisque_threshold - 1, Brisque_threshold, Brisque_threshold + 1}

\* mutant of Passed: a score equal to the threshold passes
Passed_inclusive(score, threshold) == score <= threshold

\* composite_dict["passed"][i]
Passed(score, threshold) == score < threshold

\* composite_dict["Composite_pass"]
AllPassed(passed) == \A i \in DOMAIN passed : passed[i] = TRUE

\* one composite_dict built by Asses for key, with the scores sc of the paths
CompositeDict(image_paths, key, sc, threshold) ==
    LET cp     == corresponding_paths(image_paths, key)
        scores == [i \in DOMAIN cp |-> sc[cp[i]]]
        passed == [i \in DOMAIN cp |-> Passed(scores[i], threshold)]
    IN  [composite_name |-> key, image_paths |-> cp, scores |-> scores,
         passed |-> passed, Composite_pass |-> AllPassed(passed)]

\* mutant of PassingPaths: the loop of save_images ends after the first
\* record
PassingPaths_first(composite_ls, i) ==
    IF i > Len(composite_ls) THEN << >>
    ELSE IF composite_ls[i].Composite_pass = TRUE
    THEN composite_ls[i].image_paths ELSE << >>

\* the paths save_images copies: members of the passing records, in order
RECURSIVE PassingPaths(_, _)
PassingPaths(composite_ls, i) ==
    IF i > Len(composite_ls) THEN << >>
    ELSE (IF composite_ls[i].Composite_pass = TRUE
          THEN composite_ls[i].image_paths ELSE << >>)
         \o PassingPaths(composite_ls, i + 1)

(***************************************************************************)
(* Stage objects and the client                                            *)
(***************************************************************************)
EmptyDict == [k \in {} |-> 0]

\* the fields set by the constructors of the five products
NewObject(kind, image_directory) ==
    [kind |-> kind, Image_directory |-> image_directory,
     image_paths |-> << >>, paths_none |-> FALSE,
     images_dict |-> EmptyDict, composite_ls |-> << >>,
     composites_im_dict |-> EmptyDict, defect_images_dict |-> EmptyDict,
     brisque_threshold |-> Brisque_threshold, model_loaded |-> FALSE]

\* the steps of client_code in program order
StepOrder ==
    <<"A_create", "A_load", "A_save",
      "I_create", "I_load", "I_Asses", "I_save",
      "P_create", "P_load", "P_steps", "P_save",
      "E_create", "E_load", "E_enrich", "E_save",
      "D_create", "D_load", "D_load_model", "D_detect", "D_save">>

StepIndex(step) == CHOOSE i \in DOMAIN StepOrder : StepOrder[i] = step

\* mutant of NextStep: IQA is created before Acquisition has saved
NextStep_overlap(step) ==
    IF step = "call" THEN "returned"
    ELSE IF step = "A_load" THEN "I_create"
    ELSE IF StepIndex(step) = Len(StepOrder) THEN "done"
    ELSE StepOrder[StepIndex(step) + 1]

\* sequential composition of the statements of main() and client_code; a
\* load_images called directly ("call") returns to its caller
NextStep(step) ==
    IF step = "call" THEN "returned"
    ELSE IF StepIndex(step) = Len(StepOrder) THEN "done"
    ELSE StepOrder[StepIndex(step) + 1]

\* mutant of AfterRaise: client_code catches the error of a stage and goes
\* on with the next stage
AfterRaise_caught(step) ==
    CASE step \in {"A_create", "A_load", "A_save"} -> "I_create"
      [] step \in {"I_create", "I_load", "I_Asses", "I_save"} -> "P_create"
      [] step \in {"P_create", "P_load", "P_steps", "P_save"} -> "E_create"
      [] step \in {"E_create", "E_load", "E_enrich", "E_save"} -> "D_create"
      [] OTHER -> "failed"

\* mutant of AfterRaise: main() runs save_images in a finally clause
AfterRaise_save(step) ==
    CASE step \in {"A_load"} -> "A_save"
      [] step \in {"I_load", "I_Asses"} -> "I_save"
      [] step \in {"P_load", "P_steps"} -> "P_save"
      [] step \in {"E_load", "E_enrich"} -> "E_save"
      [] step \in {"D_load", "D_load_model", "D_detect"} -> "D_save"
      [] OTHER -> "failed"

\* an exception or sys.exit leaves main() and client_code: nothing catches it
AfterRaise(step) == "failed"

\* position of the stage a step belongs to
StageOf(step) ==
    CASE step \in {"A_create", "A_load", "A_save"} -> 1
      [] step \in {"I_create", "I_load", "I_Asses", "I_save"} -> 2
      [] step \in {"P_create", "P_load", "P_steps", "P_save"} -> 3
      [] step \in {"E_create", "E_load", "E_enrich", "E_save"} -> 4
      [] OTHER -> 5

\* the directory save_images of stage k writes
OutDir(k) ==
    CASE k = 1 -> AcqDir [] k = 2 -> IQADir [] k = 3 -> PreDir
      [] k = 4 -> EnrDir [] OTHER -> DefDir

NoError == [step |-> "none", kind |-> "none", files |-> << >>]

VARIABLES
    fs,      \* directory -> [exists, files: name -> image]
    fs0,     \* the file system when the run started
    pc,      \* the next step of client_code
    self,    \* the stage object whose main() is running
    trace,   \* the steps executed so far
    err,     \* the exception that ended the run
    collab,  \* the collaborator handed to load_images, if any
    params_list  \* the IQA entry of the factory's params_list

vars == <<fs, fs0, pc, self, trace, err, collab, params_list>>

\* the IQA entry of the parameter file: with or without Brisque_threshold
ParameterFiles == {[Brisque_threshold |-> Brisque_threshold], EmptyDict}

\* what the answers to input(...) can be
PromptAnswers == {InputDir, MissingDir}

\* Image_directory of the Acquisition entry of the parameter file
ConfigDirs == {InputDir, MissingDir, AcqDir}

\* largest number of files in the acquisition input directory
MaxFiles == 6

InputSets == {X \in SUBSET Names : Cardinality(X) <= MaxFiles}

\* a statement completes: control moves to the next statement
Advance == /\ pc' = NextStep(pc)
           /\ trace' = Append(trace, pc)
           /\ err' = err
           /\ collab' = collab
           /\ params_list' = params_list

\* a statement raises (or calls sys.exit)
Raise(kind, files) ==
    /\ pc' = AfterRaise(pc)
    /\ trace' = Append(trace, pc)
    /\ err' = [step |-> pc, kind |-> kind, files |-> files]
    /\ collab' = collab
    /\ params_list' = params_list

(***************************************************************************)
(* Acquisition_Thermo                                                      *)
(***************************************************************************)
\* ConcreteFactory_Thermo.create_Acquisition
create_Acquisition ==
    /\ pc = "A_create"
    /\ \E cfg \in ConfigDirs : self' = NewObject("Acquisition", cfg)
    /\ Advance
    /\ UNCHANGED <<fs, fs0>>

\* Acquisition_Thermo.load_images
Acquisition_load_images ==
    /\ pc = "A_load"
    /\ \E answer \in PromptAnswers, ord \in ListingOrders :
          LET d == IF exists(fs, self.Image_directory)
                   THEN self.Image_directory ELSE answer
          IN  IF ~exists(fs, d)
              THEN /\ self' = [self EXCEPT !.Image_directory = d]
                   /\ Raise("SystemExit", << >>)
              ELSE /\ self' = [self EXCEPT !.Image_directory = d,
                                  !.image_paths = GlobAll(fs, d, filetypes, 1, ord)]
                   /\ Advance
    /\ UNCHANGED <<fs, fs0>>

\* mutant of Acquisition_save_images: the files are copied first and the
\* listdir/remove loop of an existing directory runs after them
Acquisition_save_images_writefirst ==
    /\ pc = "A_save"
    /\ LET base == IF exists(fs, AcqDir) THEN fs ELSE PrepareDir(fs, AcqDir)
           r    == CopyFiles(base, self.image_paths, 1, AcqDir)
       IN  /\ fs' = IF exists(fs, AcqDir) THEN PrepareDir(r.fs, AcqDir) ELSE r.fs
           /\ IF r.ok THEN Advance ELSE Raise("FileNotFoundError", << >>)
    /\ UNCHANGED <<fs0, self>>

\* Acquisition_Thermo.save_images
Acquisition_save_images ==
    /\ pc = "A_save"
    /\ LET r == CopyFiles(PrepareDir(fs, AcqDir), self.image_paths, 1, AcqDir)
       IN  /\ fs' = r.fs
           /\ IF r.ok THEN Advance ELSE Raise("FileNotFoundError", << >>)
    /\ UNCHANGED <<fs0, self>>

(***************************************************************************)
(* IQA_Thermo                                                              *)
(***************************************************************************)
\* mutant of LoadFromDirectory: a missing directory is not asked for
LoadFromDirectory_noprompt(obj, fsys, types, answer, ord) ==
    [obj EXCEPT !.image_paths =
        obj.image_paths \o GlobAll(fsys, obj.Image_directory, types, 1, ord)]

\* the except-AttributeError branch of load_images: read the stage's own
\* directory, prompting when it is missing
LoadFromDirectory(obj, fsys, types, answer, ord) ==
    LET d == IF exists(fsys, obj.Image_directory)
             THEN obj.Image_directory ELSE answer
    IN  [obj EXCEPT !.Image_directory = d,
                    !.image_paths = obj.image_paths \o GlobAll(fsys, d, types, 1, ord)]

\* ConcreteFactory_Thermo.create_IQA: IQA_params['Brisque_threshold'] is
\* passed as BrisqueThreshold, KeyError when the entry lacks the key
create_IQA ==
    /\ pc = "I_create"
    /\ IF "Brisque_threshold" \in DOMAIN params_list
       THEN /\ self' = [NewObject("IQA", AcqDir) EXCEPT
                           !.brisque_threshold = params_list.Brisque_threshold]
            /\ Advance
       ELSE /\ self' = self
            /\ Raise("KeyError", << >>)
    /\ UNCHANGED <<fs, fs0>>

\* IQA_Thermo.load_images()
IQA_load_images ==
    /\ pc = "I_load"
    /\ \E answer \in PromptAnswers, ord \in ListingOrders :
          LET obj == LoadFromDirectory(self, fs, filetypes, answer, ord)
          IN  /\ self' = obj
              /\ IF exists(fs, obj.Image_directory) THEN Advance
                 ELSE Raise("SystemExit", << >>)
    /\ UNCHANGED <<fs, fs0>>

\* IQA_Thermo.Asses
IQA_Asses ==
    /\ pc = "I_Asses"
    /\ LET paths == self.image_paths
       IN  \/ /\ \E k \in IndexErrorKeys(paths) : Raise("IndexError", << >>)
              /\ self' = self
           \/ /\ \E k \in AssertErrorKeys(paths) :
                    Raise("AssertionError", corresponding_paths(paths, k))
              /\ self' = self
           \/ /\ IndexErrorKeys(paths) = {} /\ AssertErrorKeys(paths) = {}
              /\ \E sc \in [SelectedPaths(paths) -> ScoreVals],
                    order \in Orderings(Keys(paths)) :
                    self' = [self EXCEPT !.composite_ls =
                                [i \in DOMAIN order |->
                                    CompositeDict(paths, order[i], sc,
                                                  self.brisque_threshold)]]
              /\ Advance
    /\ UNCHANGED <<fs, fs0>>

\* IQA_Thermo.save_images
IQA_save_images ==
    /\ pc = "I_save"
    /\ LET r == CopyFiles(PrepareDir(fs, IQADir),
                          PassingPaths(self.composite_ls, 1), 1, IQADir)
       IN  /\ fs' = r.fs
           /\ IF r.ok THEN Advance ELSE Raise("FileNotFoundError", << >>)
    /\ UNCHANGED <<fs0, self>>

(***************************************************************************)
(* Preprocess_Thermo                                                       *)
(***************************************************************************)
\* the grouping loop of Preprocess/Enrichment.load_images once it has run
\* to its end: Image.open of every selected path
OpenSelected(obj, fsys) ==
    [obj EXCEPT !.images_dict =
        [p \in (DOMAIN obj.images_dict) \cup SelectedPaths(obj.image_paths) |->
            IF p \in SelectedPaths(obj.image_paths) THEN ReadFile(fsys, p)
            ELSE obj.images_dict[p]]]

\* grayscale conversion and median filter of one image
Preprocess_step1(image) ==
    [image EXCEPT !.mode = "L", !.proc = Append(@, "median")]

\* interquartile-range clipping of one image; the result is an array
Preprocess_step2(image) ==
    [image EXCEPT !.mode = "array", !.proc = Append(@, "iqr")]

\* intensity rescaling of one image; the result is a float array
Preprocess_step3(image) ==
    [image EXCEPT !.mode = "array", !.proc = Append(@, "rescale")]

\* Image.fromarray(image.astype(np.uint8)) for arrays, as save_images does
ToSavedImage(image) ==
    IF image.mode = "array"
    THEN [image EXCEPT !.mode = "L", !.proc = Append(@, "uint8")]
    ELSE image

\* image.save(join(d, n)) for every entry n |-> image of images
SaveFiles(fsys, d, images) ==
    [fsys EXCEPT ![d].files =
        [m \in (DOMAIN fsys[d].files) \cup (DOMAIN images) |->
            IF m \in DOMAIN images THEN images[m] ELSE fsys[d].files[m]]]

\* the entries of a dict keyed by path, under the basename of their key
ByBasename(dict) ==
    [n \in {basename(p) : p \in DOMAIN dict} |->
        dict[CHOOSE p \in DOMAIN dict : basename(p) = n]]

\* ConcreteFactory_Thermo.create_Preprocessing
create_Preprocessing ==
    /\ pc = "P_create"
    /\ self' = NewObject("Preprocess", IQADir)
    /\ Advance
    /\ UNCHANGED <<fs, fs0>>

\* the loop `for composite_image_name in set(uip)` of load_images of
\* Preprocess_Thermo and Enrichment_Thermo, run on the object obj
GroupLoop(obj) ==
    \/ /\ \E k \in IndexErrorKeys(obj.image_paths) : Raise("IndexError", << >>)
       /\ self' = obj
    \/ /\ \E k \in AssertErrorKeys(obj.image_paths) :
             Raise("AssertionError", corresponding_paths(obj.image_paths, k))
       /\ self' = obj
    \/ /\ IndexErrorKeys(obj.image_paths) = {}
       /\ AssertErrorKeys(obj.image_paths) = {}
       /\ self' = OpenSelected(obj, fs)
       /\ Advance

\* load_images() of Preprocess_Thermo and Enrichment_Thermo: the same code
GroupedLoad(types) ==
    \E answer \in PromptAnswers, ord \in ListingOrders :
        LET obj == LoadFromDirectory(self, fs, types, answer, ord)
        IN  IF ~exists(fs, obj.Image_directory)
            THEN self' = obj /\ Raise("SystemExit", << >>)
            ELSE GroupLoop(obj)

\* Preprocess_Thermo.load_images()
Preprocess_load_images ==
    /\ pc = "P_load"
    /\ GroupedLoad(filetypes)
    /\ UNCHANGED <<fs, fs0>>

\* Preprocess_Thermo.Preprocess_steps
Preprocess_steps ==
    /\ pc = "P_steps"
    /\ self' = [self EXCEPT !.images_dict =
                   [p \in DOMAIN self.images_dict |->
                       Preprocess_step3(Preprocess_step2(Preprocess_step1(
                           self.images_dict[p])))]]
    /\ Advance
    /\ UNCHANGED <<fs, fs0>>

\* Preprocess_Thermo.save_images
Preprocess_save_images ==
    /\ pc = "P_save"
    /\ fs' = SaveFiles(PrepareDir(fs, PreDir), PreDir,
                       [n \in DOMAIN ByBasename(self.images_dict) |->
                           ToSavedImage(ByBasename(self.images_dict)[n])])
    /\ Advance
    /\ UNCHANGED <<fs0, self>>

(***************************************************************************)
(* Enrichment_Thermo                                                       *)
(***************************************************************************)
\* what dict.get returns for a missing key
None == [mode |-> "None"]

DictGet(dict, k) == IF k \in DOMAIN dict THEN dict[k] ELSE None

\* mutant of BandOrder: the bands are assigned in reverse
BandOrder_reversed(images) == Reverse(images)

\* the band order Image.merge gives the listed images
BandOrder(images) == images

\* mutant of MergeRGB: the sizes of the bands are not compared
MergeRGB_nosize(images) ==
    IF \E i \in DOMAIN images : images[i] = None
        THEN [ok |-> FALSE, kind |-> "AttributeError"]
    ELSE IF Len(images) # 3 \/ \E i \in DOMAIN images : images[i].mode # "L"
        THEN [ok |-> FALSE, kind |-> "ValueError"]
    ELSE [ok |-> TRUE,
          image |-> [mode |-> "RGB", size |-> images[1].size,
                     bands |-> BandOrder(images)]]

\* PIL.Image.merge('RGB', images)
MergeRGB(images) ==
    IF \E i \in DOMAIN images : images[i] = None
        THEN [ok |-> FALSE, kind |-> "AttributeError"]
    ELSE IF Len(images) # 3 \/ \E i \in DOMAIN images : images[i].mode # "L"
        THEN [ok |-> FALSE, kind |-> "ValueError"]
    ELSE IF \E i \in DOMAIN images : images[i].size # images[1].size
        THEN [ok |-> FALSE, kind |-> "ValueError"]
    ELSE [ok |-> TRUE,
          image |-> [mode |-> "RGB", size |-> images[1].size,
                     bands |-> BandOrder(images)]]

\* the images enrich hands to Image.merge for key
ImagesOf(obj, key) ==
    LET cp == corresponding_paths(obj.image_paths, key)
    IN  [i \in DOMAIN cp |-> DictGet(obj.images_dict, cp[i])]

\* the keys enrich iterates: set(uip) over the keys of images_dict
EnrichKeys(obj) == {KeyOf(p) : p \in DOMAIN obj.images_dict}

\* ConcreteFactory_Thermo.create_Enrichment
create_Enrichment ==
    /\ pc = "E_create"
    /\ self' = NewObject("Enrichment", PreDir)
    /\ Advance
    /\ UNCHANGED <<fs, fs0>>

\* Enrichment_Thermo.load_images()
Enrichment_load_images ==
    /\ pc = "E_load"
    /\ GroupedLoad(filetypes)
    /\ UNCHANGED <<fs, fs0>>

\* Enrichment_Thermo.enrich
Enrichment_enrich ==
    /\ pc = "E_enrich"
    /\ LET keys == EnrichKeys(self)
           bad  == {k \in keys : ~MergeRGB(ImagesOf(self, k)).ok}
       IN  \/ /\ \E k \in bad : Raise(MergeRGB(ImagesOf(self, k)).kind, << >>)
              /\ self' = self
           \/ /\ bad = {}
              /\ self' = [self EXCEPT !.composites_im_dict =
                             [k \in (DOMAIN self.composites_im_dict) \cup keys |->
                                 IF k \in keys
                                 THEN MergeRGB(ImagesOf(self, k)).image
                                 ELSE self.composites_im_dict[k]]]
              /\ Advance
    /\ UNCHANGED <<fs, fs0>>

\* mutant of ByImgName: the composite is saved under its key unchanged
ByImgName_key(dict) == dict

\* the composites under the name save_images gives them: the key with the
\* double space replaced by one space
ByImgName(dict) ==
    [n \in {CollapseDoubleSpace(k) : k \in DOMAIN dict} |->
        dict[CHOOSE k \in DOMAIN dict : CollapseDoubleSpace(k) = n]]

\* Enrichment_Thermo.save_images
Enrichment_save_images ==
    /\ pc = "E_save"
    /\ fs' = SaveFiles(PrepareDir(fs, EnrDir), EnrDir,
                       ByImgName(self.composites_im_dict))
    /\ Advance
    /\ UNCHANGED <<fs0, self>>

(***************************************************************************)
(* DefectDetection_Thermo                                                  *)
(***************************************************************************)
\* the image with bounding boxes and scores drawn on it
Annotated(image) == [mode |-> "RGB", size |-> image.size, boxes_of |-> image]

\* ConcreteFactory_Thermo.create_DefectDetection
create_DefectDetection ==
    /\ pc = "D_create"
    /\ self' = NewObject("DefectDetection", EnrDir)
    /\ Advance
    /\ UNCHANGED <<fs, fs0>>

\* DefectDetection_Thermo.load_images()
DefectDetection_load_images ==
    /\ pc = "D_load"
    /\ \E answer \in PromptAnswers, ord \in ListingOrders :
          LET obj == LoadFromDirectory(self, fs, filetypes_npy, answer, ord)
          IN  /\ self' = obj
              /\ IF exists(fs, obj.Image_directory) THEN Advance
                 ELSE Raise("SystemExit", << >>)
    /\ UNCHANGED <<fs, fs0>>

\* DefectDetection_Thermo.load_model: torch.jit.load succeeds or raises
DefectDetection_load_model ==
    /\ pc = "D_load_model"
    /\ \E loaded \in BOOLEAN :
          IF loaded THEN self' = [self EXCEPT !.model_loaded = TRUE] /\ Advance
          ELSE self' = self /\ Raise("ModelError", << >>)
    /\ UNCHANGED <<fs, fs0>>

\* DefectDetection_Thermo.defect_detection: hits are the images with at
\* least one detection scoring above the threshold
DefectDetection_defect_detection ==
    /\ pc = "D_detect"
    /\ \E hits \in SUBSET Range(self.image_paths) :
          self' = [self EXCEPT !.defect_images_dict =
                      [p \in (DOMAIN self.defect_images_dict) \cup hits |->
                          IF p \in hits THEN Annotated(ReadFile(fs, p))
                          ELSE self.defect_images_dict[p]]]
    /\ Advance
    /\ UNCHANGED <<fs, fs0>>

\* DefectDetection_Thermo.save_images
DefectDetection_save_images ==
    /\ pc = "D_save"
    /\ fs' = SaveFiles(PrepareDir(fs, DefDir), DefDir,
                       ByBasename(self.defect_images_dict))
    /\ Advance
    /\ UNCHANGED <<fs0, self>>

(***************************************************************************)
(* Initial states of a client_code run                                     *)
(***************************************************************************)
\* the stage directories as an earlier, complete run on the BC group left
\* them (every image passed, the detector hit the composite)
StaleGroup == {nBC1, nBC2, nBC3}
StalePre(n) ==
    ToSavedImage(Preprocess_step3(Preprocess_step2(Preprocess_step1(Gray(n)))))
StaleComposite ==
    MergeRGB(<<StalePre(nBC1), StalePre(nBC2), StalePre(nBC3)>>).image
StaleCompositeName == CollapseDoubleSpace(StripFreq(nBC1))

StaleDirs ==
    [d \in StageDirs |->
        [exists |-> TRUE,
         files  |->
            IF d \in {AcqDir, IQADir} THEN [n \in StaleGroup |-> Gray(n)]
            ELSE IF d = PreDir THEN [n \in StaleGroup |-> StalePre(n)]
            ELSE IF d = EnrDir
                 THEN [n \in {StaleCompositeName} |-> StaleComposite]
            ELSE [n \in {StaleCompositeName} |-> Annotated(StaleComposite)]]]

FreshDirs == [d \in StageDirs |-> AbsentDir]

\* the stage directories of an earlier run, 3.Preprocessed_images then
\* filled by hand with five images of one size, 'B 7Hz S.png' among them
SharedMemberDirs ==
    [StaleDirs EXCEPT ![PreDir].files =
        [n \in {nB1, nB2, nB7, n71, n72} |->
            [StalePre(n) EXCEPT !.size = SizeOf(nB1)]]]

\* the stage directories of an earlier run, 3.Preprocessed_images then
\* filled by hand with two groups, one image of another size among them
MixedSizeDirs ==
    [StaleDirs EXCEPT ![PreDir].files =
        [n \in StaleGroup \cup {n71, n72, n705} |->
            IF n = nBC3 THEN [StalePre(n) EXCEPT !.size = SizeOf(nB7)]
            ELSE StalePre(n)]]

Init ==
    /\ \E X \in InputSets, W \in {FreshDirs, StaleDirs} :
          fs = [d \in Dirs |->
                   IF d = InputDir
                   THEN [exists |-> TRUE, files |-> [n \in X |-> Gray(n)]]
                   ELSE IF d = MissingDir THEN AbsentDir ELSE W[d]]
    /\ fs0 = fs
    /\ pc = "A_create"
    /\ self = NewObject("none", MissingDir)
    /\ trace = << >>
    /\ err = NoError
    /\ collab = NewObject("none", MissingDir)
    /\ params_list \in ParameterFiles

(***************************************************************************)
(* load_images(collaborator) called directly on a stage object             *)
(***************************************************************************)
\* the ways collaborator.load_images() can end for the product c:
\* status "list" (a path list is returned), "None" (nothing is returned)
\* or "raise"
CollaboratorOutcomes(c, fsys, answer, ord) ==
    LET d == IF exists(fsys, c.Image_directory) THEN c.Image_directory ELSE answer
    IN  IF c.kind = "Acquisition"
        THEN IF ~exists(fsys, d)
             THEN {[status |-> "raise", kind |-> "SystemExit", files |-> << >>,
                    obj |-> [c EXCEPT !.Image_directory = d]]}
             ELSE {[status |-> "list", kind |-> "none", files |-> << >>,
                    obj |-> [c EXCEPT !.Image_directory = d,
                                !.image_paths = GlobAll(fsys, d, filetypes, 1, ord)]]}
        ELSE LET obj == LoadFromDirectory(c, fsys, filetypes, answer, ord)
             IN  IF ~exists(fsys, d)
                 THEN {[status |-> "raise", kind |-> "SystemExit",
                        files |-> << >>, obj |-> obj]}
                 ELSE IF c.kind = "IQA"
                 THEN {[status |-> "None", kind |-> "none", files |-> << >>,
                        obj |-> obj]}
                 ELSE {[status |-> "raise", kind |-> "IndexError",
                        files |-> << >>, obj |-> obj] :
                          k \in IndexErrorKeys(obj.image_paths)}
                      \cup
                      {[status |-> "raise", kind |-> "AssertionError",
                        files |-> corresponding_paths(obj.image_paths, k),
                        obj |-> obj] : k \in AssertErrorKeys(obj.image_paths)}
                      \cup
                      (IF IndexErrorKeys(obj.image_paths) = {}
                          /\ AssertErrorKeys(obj.image_paths) = {}
                       THEN {[status |-> "None", kind |-> "none",
                              files |-> << >>, obj |-> OpenSelected(obj, fsys)]}
                       ELSE {})

\* mutant of TryAssign: the stage's own directory is read as well
TryAssign_extend(obj, out) ==
    [obj EXCEPT !.image_paths =
                    (IF out.status = "list" THEN out.obj.image_paths ELSE << >>)
                    \o GlobAll(fs, obj.Image_directory, filetypes, 1, Listing),
                !.paths_none = (out.status = "None"),
                !.Image_directory = out.obj.Image_directory]

\* the two assignments of the try block, given what the collaborator
\* returned
TryAssign(obj, out) ==
    [obj EXCEPT !.image_paths = IF out.status = "list"
                                THEN out.obj.image_paths ELSE << >>,
                !.paths_none = (out.status = "None"),
                !.Image_directory = out.obj.Image_directory]

\* load_images(collaborator) of IQA_Thermo and DefectDetection_Thermo
PlainLoadWith ==
    \E answer \in PromptAnswers, ord \in ListingOrders :
    \E out \in CollaboratorOutcomes(collab, fs, answer, ord) :
        /\ collab' = out.obj
        /\ trace' = Append(trace, pc)
        /\ IF out.status = "raise"
           THEN /\ self' = self
                /\ pc' = AfterRaise(pc)
                /\ err' = [step |-> "collaborator", kind |-> out.kind,
                           files |-> out.files]
           ELSE /\ self' = TryAssign(self, out)
                /\ IF out.status = "None"
                   THEN /\ pc' = AfterRaise(pc)
                        /\ err' = [step |-> pc, kind |-> "TypeError",
                                   files |-> << >>]
                   ELSE /\ pc' = NextStep(pc)
                        /\ err' = err

\* load_images(collaborator) of Preprocess_Thermo and Enrichment_Thermo
GroupedLoadWith ==
    \E answer \in PromptAnswers, ord \in ListingOrders :
    \E out \in CollaboratorOutcomes(collab, fs, answer, ord) :
        /\ collab' = out.obj
        /\ trace' = Append(trace, pc)
        /\ IF out.status = "raise"
           THEN /\ self' = self
                /\ pc' = AfterRaise(pc)
                /\ err' = [step |-> "collaborator", kind |-> out.kind,
                           files |-> out.files]
           ELSE IF out.status = "None"
           THEN /\ self' = TryAssign(self, out)
                /\ pc' = AfterRaise(pc)
                /\ err' = [step |-> pc, kind |-> "TypeError", files |-> << >>]
           ELSE LET obj == TryAssign(self, out)
                IN  \/ /\ \E k \in IndexErrorKeys(obj.image_paths) :
                             err' = [step |-> pc, kind |-> "IndexError",
                                     files |-> << >>]
                       /\ self' = obj
                       /\ pc' = AfterRaise(pc)
                    \/ /\ \E k \in AssertErrorKeys(obj.image_paths) :
                             err' = [step |-> pc, kind |-> "AssertionError",
                                     files |-> corresponding_paths(obj.image_paths, k)]
                       /\ self' = obj
                       /\ pc' = AfterRaise(pc)
                    \/ /\ IndexErrorKeys(obj.image_paths) = {}
                       /\ AssertErrorKeys(obj.image_paths) = {}
                       /\ self' = OpenSelected(obj, fs)
                       /\ pc' = NextStep(pc)
                       /\ err' = err

\* IQA_Thermo.load_images(collaborator)
IQA_load_images_with ==
    /\ pc = "call" /\ self.kind = "IQA"
    /\ PlainLoadWith
    /\ UNCHANGED <<fs, fs0, params_list>>

\* Preprocess_Thermo.load_images(collaborator)
Preprocess_load_images_with ==
    /\ pc = "call" /\ self.kind = "Preprocess"
    /\ GroupedLoadWith
    /\ UNCHANGED <<fs, fs0, params_list>>

\* Enrichment_Thermo.load_images(collaborator)
Enrichment_load_images_with ==
    /\ pc = "call" /\ self.kind = "Enrichment"
    /\ GroupedLoadWith
    /\ UNCHANGED <<fs, fs0, params_list>>

\* DefectDetection_Thermo.load_images(collaborator)
DefectDetection_load_images_with ==
    /\ pc = "call" /\ self.kind = "DefectDetection"
    /\ PlainLoadWith
    /\ UNCHANGED <<fs, fs0, params_list>>

\* the canonical input directory each constructor sets
CanonicalDir(kind) ==
    CASE kind = "IQA" -> AcqDir
      [] kind = "Preprocess" -> IQADir
      [] kind = "Enrichment" -> PreDir
      [] OTHER -> EnrDir

\* largest number of files in the collaborator's input directory
MaxCollabFiles == 3

InitCollab ==
    /\ \E X \in {Y \in SUBSET Names : Cardinality(Y) <= MaxCollabFiles} :
          fs = [d \in Dirs |->
                   IF d = InputDir
                   THEN [exists |-> TRUE, files |-> [n \in X |-> Gray(n)]]
                   ELSE IF d = MissingDir THEN AbsentDir ELSE StaleDirs[d]]
    /\ fs0 = fs
    /\ pc = "call"
    /\ \E kind \in {"IQA", "Preprocess", "Enrichment", "DefectDetection"} :
          self = NewObject(kind, CanonicalDir(kind))
    /\ \/ \E cfg \in {InputDir, MissingDir} :
             collab = NewObject("Acquisition", cfg)
       \/ \E kind \in {"IQA", "Preprocess", "Enrichment"} :
             collab = NewObject(kind, CanonicalDir(kind))
    /\ trace = << >>
    /\ err = NoError
    /\ params_list = [Brisque_threshold |-> Brisque_threshold]

NextCollab ==
    \/ IQA_load_images_with \/ Preprocess_load_images_with
    \/ Enrichment_load_images_with \/ DefectDetection_load_images_with

SpecCollab == InitCollab /\ [][NextCollab]_vars

\* client_code
Next ==
    \/ create_Acquisition \/ Acquisition_load_images \/ Acquisition_save_images
    \/ create_IQA \/ IQA_load_images \/ IQA_Asses \/ IQA_save_images
    \/ create_Preprocessing \/ Preprocess_load_images \/ Preprocess_steps
    \/ Preprocess_save_images
    \/ create_Enrichment \/ Enrichment_load_images \/ Enrichment_enrich
    \/ Enrichment_save_images
    \/ create_DefectDetection \/ DefectDetection_load_images
    \/ DefectDetection_load_model \/ DefectDetection_defect_detection
    \/ DefectDetection_save_images

Spec == Init /\ [][Next]_vars

(***************************************************************************)
(* main() of one stage, called on a product of the factory                 *)
(***************************************************************************)
\* a file of a directory that no file type matches
Notes == <<"a", ".", "t", "x", "t">>

WithNotes(dir) ==
    IF ~dir.exists THEN dir
    ELSE [exists |-> TRUE,
          files  |-> [n \in (DOMAIN dir.files) \cup {Notes} |->
                        IF n = Notes THEN [mode |-> "text"] ELSE dir.files[n]]]

\* largest number of images in the directory a prompt can name
MaxStageFiles == 3

\* the working directory is new, was filled by an earlier run, or was
\* filled by hand (then with an empty input directory); the product is
\* created by its factory method and main() is called
InitStage ==
    /\ \E X \in {Y \in SUBSET Names : Cardinality(Y) <= MaxStageFiles},
          W \in {FreshDirs, StaleDirs, MixedSizeDirs, SharedMemberDirs} :
          /\ W \in {FreshDirs, StaleDirs} \/ X = {}
          /\ fs = [d \in Dirs |->
                   IF d = InputDir
                   THEN WithNotes([exists |-> TRUE, files |-> [n \in X |-> Gray(n)]])
                   ELSE IF d = MissingDir THEN AbsentDir ELSE WithNotes(W[d])]
    /\ fs0 = fs
    /\ pc \in {"A_create", "I_create", "P_create", "E_create", "D_create"}
    /\ self = NewObject("none", MissingDir)
    /\ trace = << >>
    /\ err = NoError
    /\ collab = NewObject("none", MissingDir)
    /\ params_list = [Brisque_threshold |-> Brisque_threshold]

\* the steps of the one main() that was called
NextStage ==
    /\ IF trace = << >> THEN TRUE ELSE StageOf(pc) = StageOf(trace[1])
    /\ Next

SpecStage == InitStage /\ [][NextStage]_vars

(***************************************************************************)
(* main() called a second time on the same product                         *)
(***************************************************************************)
\* main() has returned once: it is called again on the same object; fs0
\* keeps the file system this second call starts with
Main_again ==
    /\ trace # << >>
    /\ trace[Len(trace)] \in {"A_save", "I_save", "P_save", "E_save", "D_save"}
    /\ pc = NextStep(trace[Len(trace)])
    /\ Cardinality({i \in DOMAIN trace : trace[i] = trace[Len(trace)]}) = 1
    /\ pc' = StepOrder[StepIndex(trace[1]) + 1]
    /\ fs0' = fs
    /\ UNCHANGED <<fs, self, trace, err, collab, params_list>>

NextRerun == Main_again \/ NextStage

SpecRerun == InitStage /\ [][NextRerun]_vars

(***************************************************************************)
(* The preprocessing steps called one by one on a loaded Preprocess_Thermo *)
(* Every entry of images_dict is [cls, im]: the Python type of the object  *)
(* ("ImageFile" for what Image.open returns, "Image" for PIL.Image.Image,  *)
(* "ndarray") and the image it holds.                                      *)
(***************************************************************************)
\* Image.open(path) for every entry of a dict of file contents
Image_open(dict) ==
    [p \in DOMAIN dict |-> [cls |-> "ImageFile", im |-> dict[p]]]

\* `type(image) is Image.Image` is false for the object x, which is not an
\* array either: step 2 then calls copy() on the PIL image and assigns to
\* an item of it, step 3 calls mean() on it
NotAnArray(x) == x.cls = "ImageFile"

\* largest number of step calls after load_images
MaxSteps == 3

\* load_images() has returned on 2.IQA_images holding no, one or two groups
InitSteps ==
    /\ \E X \in {{}, {nBC1, nBC2, nBC3}, {n71, n72, n705},
                  {nBC1, nBC2, nBC3, n71, n72, n705}},
          ord \in ListingOrders :
          /\ fs = [d \in Dirs |->
                      IF d = IQADir
                      THEN [exists |-> TRUE, files |-> [n \in X |-> Gray(n)]]
                      ELSE AbsentDir]
          /\ LET obj == OpenSelected(
                            LoadFromDirectory(NewObject("Preprocess", IQADir),
                                              fs, filetypes, MissingDir, ord), fs)
             IN  self = [obj EXCEPT !.images_dict = Image_open(@)]
    /\ fs0 = fs
    /\ pc = "loaded"
    /\ trace = << >>
    /\ err = NoError
    /\ collab = self
    /\ params_list = [Brisque_threshold |-> Brisque_threshold]

\* Preprocess_Thermo.Preprocess_step1 on the object
Run_Preprocess_step1 ==
    /\ pc = "loaded" /\ Len(trace) < MaxSteps
    /\ self' = [self EXCEPT !.images_dict =
                   [p \in DOMAIN @ |->
                       [cls |-> "Image", im |-> Preprocess_step1(@[p].im)]]]
    /\ trace' = Append(trace, "step1")
    /\ UNCHANGED <<fs, fs0, pc, err, collab, params_list>>

\* Preprocess_Thermo.Preprocess_step2 on the object
Run_Preprocess_step2 ==
    /\ pc = "loaded" /\ Len(trace) < MaxSteps
    /\ trace' = Append(trace, "step2")
    /\ IF \E p \in DOMAIN self.images_dict : NotAnArray(self.images_dict[p])
       THEN /\ pc' = "failed"
            /\ err' = [step |-> "step2", kind |-> "TypeError", files |-> << >>]
            /\ self' = self
       ELSE /\ self' = [self EXCEPT !.images_dict =
                           [p \in DOMAIN @ |->
                               [cls |-> "ndarray",
                                im  |-> Preprocess_step2(@[p].im)]]]
            /\ UNCHANGED <<pc, err>>
    /\ UNCHANGED <<fs, fs0, collab, params_list>>

\* Preprocess_Thermo.Preprocess_step3 on the object
Run_Preprocess_step3 ==
    /\ pc = "loaded" /\ Len(trace) < MaxSteps
    /\ trace' = Append(trace, "step3")
    /\ IF \E p \in DOMAIN self.images_dict : NotAnArray(self.images_dict[p])
       THEN /\ pc' = "failed"
            /\ err' = [step |-> "step3", kind |-> "AttributeError",
                       files |-> << >>]
            /\ self' = self
       ELSE /\ self' = [self EXCEPT !.images_dict =
                           [p \in DOMAIN @ |->
                               [cls |-> "ndarray",
                                im  |-> Preprocess_step3(@[p].im)]]]
            /\ UNCHANGED <<pc, err>>
    /\ UNCHANGED <<fs, fs0, collab, params_list>>

NextSteps ==
    Run_Preprocess_step1 \/ Run_Preprocess_step2 \/ Run_Preprocess_step3

SpecSteps == InitSteps /\ [][NextSteps]_vars

(***************************************************************************)
(* Steps 2 and 3 on the pixel array of one 8-bit image.  arr is the        *)
(* flattened array; quartiles are kept times 4 and clipping limits times 8 *)
(* so that np.quantile and 1.5 * IQR are exact.                            *)
(***************************************************************************)
\* the k-th smallest element of arr, k = 1..Len(arr)
Kth(arr, k) ==
    CHOOSE v \in Range(arr) :
        /\ Cardinality({i \in DOMAIN arr : arr[i] < v}) < k
        /\ Cardinality({i \in DOMAIN arr : arr[i] <= v}) >= k

\* 4 * np.quantile(arr, q / 4): linear interpolation between the two order
\* statistics around the position (q / 4) * (n - 1)
quantile(arr, q) ==
    LET pos4 == q * (Len(arr) - 1)
        a    == Kth(arr, (pos4 \div 4) + 1)
        b    == IF pos4 % 4 = 0 THEN a ELSE Kth(arr, (pos4 \div 4) + 2)
    IN  4 * a + (pos4 % 4) * (b - a)

\* mutant of astype_uint8: the value is rounded to the nearest integer
astype_uint8_nearest(v8) == ((v8 + 4) \div 8) % 256

\* the uint8 that numpy stores for the float v8 / 8 >= 0: the fraction is
\* dropped
astype_uint8(v8) == (v8 \div 8) % 256

\* the array res of Preprocess_step2 for the uint8 array arr
IQR_clip(arr) ==
    LET Q1    == quantile(arr, 1)
        Q3    == quantile(arr, 3)
        IQR   == Q3 - Q1
        upper == 2 * Q3 + 3 * IQR
        lower == 2 * Q1 - 3 * IQR
    IN  [i \in DOMAIN arr |->
            IF 8 * arr[i] <= lower THEN astype_uint8(lower)
            ELSE IF 8 * arr[i] > upper THEN astype_uint8(upper)
            ELSE arr[i]]

\* np.interp(x, (m - 2 * sd, m + 2 * sd), (0, 255)) for one element x of an
\* array of n elements with sum S and n * n * variance D.  The result is
\* 0.0 ("low"), 255.0 ("high") or, strictly between the two limits, the
\* number 255 * (num + 2 * sqrt(rad)) / (4 * sqrt(rad)).  With sd = 0 both
\* limits equal x and the search of np.interp ends at the last limit.
interp(x, n, S, D) ==
    LET B == n * x - S
    IN  IF B >= 0 /\ B * B >= 4 * D
            THEN [clamp |-> "high", num |-> 0, rad |-> 0]
        ELSE IF B < 0 /\ B * B >= 4 * D
            THEN [clamp |-> "low", num |-> 0, rad |-> 0]
        ELSE [clamp |-> "none", num |-> B, rad |-> D]

RECURSIVE Sum(_, _)
Sum(arr, i) == IF i = 0 THEN 0 ELSE arr[i] + Sum(arr, i - 1)

\* mutant of Rescale: the slope 255 / (4 * sd) is computed first, which
\* raises for sd = 0
Rescale_slope(arr) ==
    LET n == Len(arr)
        S == Sum(arr, n)
        D == n * Sum([i \in DOMAIN arr |-> arr[i] * arr[i]], n) - S * S
    IN  IF D = 0 THEN [ok |-> FALSE, ima |-> << >>]
        ELSE [ok |-> TRUE, ima |-> [i \in DOMAIN arr |-> interp(arr[i], n, S, D)]]

\* the array ima of Preprocess_step3 for the array arr
Rescale(arr) ==
    LET n == Len(arr)
        S == Sum(arr, n)
        D == n * Sum([i \in DOMAIN arr |-> arr[i] * arr[i]], n) - S * S
    IN  [ok |-> TRUE, ima |-> [i \in DOMAIN arr |-> interp(arr[i], n, S, D)]]

\* largest number of pixels of an image
MaxPixels == 5

\* the pixel values that occur
PixelVals == {0, 100, 101, 103, 255}

\* images_dict holds one 8-bit image (the result of step 1)
InitPixels ==
    /\ \E n \in 1..MaxPixels : \E arr \in [1..n -> PixelVals] :
          self = [arr |-> arr, res |-> arr, ima |-> << >>]
    /\ pc = "step1"
    /\ fs = [d \in Dirs |-> AbsentDir]
    /\ fs0 = fs
    /\ trace = << >>
    /\ err = NoError
    /\ collab = NewObject("none", MissingDir)
    /\ params_list = [Brisque_threshold |-> Brisque_threshold]

\* Preprocess_step2 on the image
Clip_pixels ==
    /\ pc = "step1"
    /\ self' = [self EXCEPT !.res = IQR_clip(self.arr)]
    /\ pc' = "step2"
    /\ trace' = Append(trace, "step2")
    /\ UNCHANGED <<fs, fs0, err, collab, params_list>>

\* Preprocess_step3 on the image, clipped or not
Rescale_pixels ==
    /\ pc \in {"step1", "step2"}
    /\ trace' = Append(trace, "step3")
    /\ IF Rescale(self.res).ok
       THEN /\ self' = [self EXCEPT !.ima = Rescale(self.res).ima]
            /\ pc' = "step3"
            /\ err' = err
       ELSE /\ self' = self
            /\ pc' = "failed"
            /\ err' = [step |-> "step3", kind |-> "ZeroDivisionError",
                       files |-> << >>]
    /\ UNCHANGED <<fs, fs0, collab, params_list>>

NextPixels == Clip_pixels \/ Rescale_pixels

SpecPixels == InitPixels /\ [][NextPixels]_vars

(***************************************************************************)
(* Two runs of Acquisition and IQA on one working directory, one file      *)
(* system call at a time.  pc, self and err hold one entry per run;        *)
(* self[r] is [obj, names, k]: the stage object, the result of listdir and *)
(* the index of the running loop.  trace lists the runs in the order they  *)
(* took turns, up to the third turn.                                       *)
(***************************************************************************)
\* Image_directory of the second run's parameter file
InputDir2 == <<"/", "d", "a", "t", "b">>

\* mutant of listdir: no entry is listed, so nothing is removed
listdir_none(fsys, d) == << >>

\* os.listdir(d)
listdir(fsys, d) ==
    LET present(n) == n \in DOMAIN fsys[d].files
    IN  SelectSeq(Listing, present)

\* run r completes one call: it is at label next with object obj, the file
\* system is fsys and its error, if any, is e
ConcStep(r, next, obj, fsys, e) ==
    /\ pc' = [pc EXCEPT ![r] = next]
    /\ self' = [self EXCEPT ![r] = obj]
    /\ fs' = fsys
    /\ err' = [err EXCEPT ![r] = e]
    /\ trace' = IF trace # << >> /\ (trace[Len(trace)] = r \/ Len(trace) >= 3)
                THEN trace ELSE Append(trace, r)
    /\ UNCHANGED <<fs0, collab, params_list>>

\* where run r goes on once the output directory of its stage is prepared
\* or a file is copied: the copy loop of save_images over the paths from
\* index k on, then the next stage
AfterPrepare(r, stage, k) ==
    LET obj   == self[r].obj
        paths == IF stage = "A" THEN obj.image_paths
                 ELSE PassingPaths(obj.composite_ls, 1)
    IN  IF k <= Len(paths)
        THEN [next |-> IF stage = "A" THEN "A_copy" ELSE "I_copy",
              obj  |-> [self[r] EXCEPT !.k = k], path |-> paths[k]]
        ELSE IF stage = "A"
        THEN [next |-> "I_load",
              obj  |-> [self[r] EXCEPT !.obj = NewObject("IQA", AcqDir), !.k = 1],
              path |-> << >>]
        ELSE [next |-> "done", obj |-> self[r], path |-> << >>]

\* the first run acquires the BC group, the second one image, into a new
\* working directory
InitConc ==
    /\ fs = [d \in {InputDir, InputDir2, AcqDir, IQADir} |->
                IF d = InputDir
                THEN [exists |-> TRUE, files |-> [n \in StaleGroup |-> Gray(n)]]
                ELSE IF d = InputDir2
                THEN [exists |-> TRUE, files |-> [n \in {n71} |-> Gray(n)]]
                ELSE AbsentDir]
    /\ fs0 = fs
    /\ pc = [r \in {1, 2} |-> "A_load"]
    /\ self = [r \in {1, 2} |->
                  [obj   |-> NewObject("Acquisition",
                                       IF r = 1 THEN InputDir ELSE InputDir2),
                   names |-> << >>, k |-> 1]]
    /\ err = [r \in {1, 2} |-> NoError]
    /\ trace = << >>
    /\ collab = NewObject("none", MissingDir)
    /\ params_list = [Brisque_threshold |-> Brisque_threshold]

\* load_images of Acquisition_Thermo and IQA_Thermo: the glob calls
Conc_load_images(r) ==
    /\ pc[r] \in {"A_load", "I_load"}
    /\ LET obj == self[r].obj
       IN  IF ~exists(fs, obj.Image_directory)
           THEN ConcStep(r, "failed", self[r], fs,
                         [step |-> pc[r], kind |-> "SystemExit", files |-> << >>])
           ELSE ConcStep(r, IF pc[r] = "A_load" THEN "A_exists" ELSE "I_Asses",
                         [self[r] EXCEPT !.obj.image_paths =
                             GlobAll(fs, obj.Image_directory, filetypes, 1, Listing)],
                         fs, err[r])

\* IQA_Thermo.Asses: the group check, then get_score reads every file
Conc_Asses(r) ==
    /\ pc[r] = "I_Asses"
    /\ LET paths == self[r].obj.image_paths
           raise(kind) == ConcStep(r, "failed", self[r], fs,
                              [step |-> "I_Asses", kind |-> kind, files |-> << >>])
       IN  \/ IndexErrorKeys(paths) # {} /\ raise("IndexError")
           \/ AssertErrorKeys(paths) # {} /\ raise("AssertionError")
           \/ /\ IndexErrorKeys(paths) = {} /\ AssertErrorKeys(paths) = {}
              /\ \E q \in SelectedPaths(paths) : ~FileExists(fs, q)
              /\ raise("FileNotFoundError")
           \/ /\ IndexErrorKeys(paths) = {} /\ AssertErrorKeys(paths) = {}
              /\ \A q \in SelectedPaths(paths) : FileExists(fs, q)
              /\ \E sc \in [SelectedPaths(paths) -> ScoreVals],
                    order \in Orderings(Keys(paths)) :
                    ConcStep(r, "I_exists",
                        [self[r] EXCEPT !.obj.composite_ls =
                            [i \in DOMAIN order |->
                                CompositeDict(paths, order[i], sc,
                                              self[r].obj.brisque_threshold)]],
                        fs, err[r])

\* save_images: `if not exists(NewImageDir)`
Conc_exists(r) ==
    /\ pc[r] \in {"A_exists", "I_exists"}
    /\ LET d == IF pc[r] = "A_exists" THEN AcqDir ELSE IQADir
       IN  ConcStep(r,
               IF pc[r] = "A_exists"
               THEN (IF exists(fs, d) THEN "A_listdir" ELSE "A_makedirs")
               ELSE (IF exists(fs, d) THEN "I_listdir" ELSE "I_makedirs"),
               self[r], fs, err[r])

\* save_images: makedirs(NewImageDir)
Conc_makedirs(r) ==
    /\ pc[r] \in {"A_makedirs", "I_makedirs"}
    /\ LET stage == IF pc[r] = "A_makedirs" THEN "A" ELSE "I"
           d     == IF stage = "A" THEN AcqDir ELSE IQADir
           go    == AfterPrepare(r, stage, 1)
       IN  IF exists(fs, d)
           THEN ConcStep(r, "failed", self[r], fs,
                    [step |-> pc[r], kind |-> "FileExistsError", files |-> << >>])
           ELSE ConcStep(r, go.next, go.obj,
                    [fs EXCEPT ![d] = [exists |-> TRUE, files |-> EmptyFiles]],
                    err[r])

\* save_images: listdir(NewImageDir)
Conc_listdir(r) ==
    /\ pc[r] \in {"A_listdir", "I_listdir"}
    /\ LET stage == IF pc[r] = "A_listdir" THEN "A" ELSE "I"
           d     == IF stage = "A" THEN AcqDir ELSE IQADir
           names == listdir(fs, d)
           go    == AfterPrepare(r, stage, 1)
       IN  IF names = << >>
           THEN ConcStep(r, go.next, go.obj, fs, err[r])
           ELSE ConcStep(r, IF stage = "A" THEN "A_remove" ELSE "I_remove",
                         [self[r] EXCEPT !.names = names, !.k = 1], fs, err[r])

\* save_images: remove(join(NewImageDir, filename)) for one listed name
Conc_remove(r) ==
    /\ pc[r] \in {"A_remove", "I_remove"}
    /\ LET stage == IF pc[r] = "A_remove" THEN "A" ELSE "I"
           d     == IF stage = "A" THEN AcqDir ELSE IQADir
           n     == self[r].names[self[r].k]
           go    == AfterPrepare(r, stage, 1)
           less  == [fs EXCEPT ![d].files =
                        [m \in (DOMAIN fs[d].files) \ {n} |-> fs[d].files[m]]]
       IN  IF n \notin DOMAIN fs[d].files
           THEN ConcStep(r, "failed", self[r], fs,
                    [step |-> pc[r], kind |-> "FileNotFoundError", files |-> << >>])
           ELSE IF self[r].k < Len(self[r].names)
           THEN ConcStep(r, pc[r], [self[r] EXCEPT !.k = @ + 1], less, err[r])
           ELSE ConcStep(r, go.next, go.obj, less, err[r])

\* save_images: copyfile(path, new_image_path) for one path
Conc_copyfile(r) ==
    /\ pc[r] \in {"A_copy", "I_copy"}
    /\ LET stage == IF pc[r] = "A_copy" THEN "A" ELSE "I"
           d     == IF stage = "A" THEN AcqDir ELSE IQADir
           q     == AfterPrepare(r, stage, self[r].k).path
           go    == AfterPrepare(r, stage, self[r].k + 1)
       IN  IF ~FileExists(fs, q)
           THEN ConcStep(r, "failed", self[r], fs,
                    [step |-> pc[r], kind |-> "FileNotFoundError", files |-> << >>])
           ELSE ConcStep(r, go.next, go.obj,
                    WriteFile(fs, d, basename(q), ReadFile(fs, q)), err[r])

NextConc ==
    \E r \in {1, 2} :
        \/ Conc_load_images(r) \/ Conc_Asses(r) \/ Conc_exists(r)
        \/ Conc_makedirs(r) \/ Conc_listdir(r) \/ Conc_remove(r)
        \/ Conc_copyfile(r)

SpecConc == InitConc /\ [][NextConc]_vars
(***************************************************************************)
(* Properties                                                              *)
(***************************************************************************)
LastStep == IF trace = << >> THEN "none" ELSE trace[Len(trace)]

\* n has the form '<prefix> <freq>Hz <suffix>.<ext>' with one frequency token
WellFormedName(n) ==
    \E i \in 2..Len(n) :
        LET m == FreqMatchLen(n, i)
        IN  /\ m > 0
            /\ n[i - 1] = " "
            /\ i - 1 > 1
            /\ i + m < Len(n)
            /\ n[i + m] = " "
            /\ StripFreq(n) = SubSeq(n, 1, i - 1) \o SubSeq(n, i + m, Len(n))
            /\ \E t \in DOMAIN filetypes : EndsWith(n, filetypes[t])

\* every (prefix, suffix) occurs with exactly three frequencies
ThreePerGroup(paths) ==
    /\ \A p \in Range(paths) : WellFormedName(basename(p))
    /\ \A k \in Keys(paths) :
          Cardinality({p \in Range(paths) : KeyOf(p) = k}) = 3

\* the stage objects that run the grouping, once their paths are loaded
GroupingStageLoaded ==
    \/ pc = "I_Asses"
    \/ LastStep \in {"I_Asses", "P_load", "E_load"}

\* C1: on a well-formed path set with exactly three frequencies per
\* (prefix, suffix), the grouping of IQA, Preprocess and Enrichment selects
\* exactly 3 paths for every key and no path for two different keys.
C1_GroupingCorrectness ==
    (GroupingStageLoaded /\ ThreePerGroup(self.image_paths)) =>
        /\ \A k \in Keys(self.image_paths) :
              Len(corresponding_paths(self.image_paths, k)) = 3
        /\ \A k1, k2 \in Keys(self.image_paths) :
              k1 # k2 =>
                Range(corresponding_paths(self.image_paths, k1))
                  \cap Range(corresponding_paths(self.image_paths, k2)) = {}

\* IQA main() has completed
IQADone == LastStep = "I_save" /\ pc = "P_create"

\* C2: every quality record has Composite_pass = all(passed) with
\* passed[i] iff scores[i] < threshold, and after IQA main() no member of a
\* group with a score at or above the threshold is in 2.IQA_images.
C2_GateAtomicity ==
    /\ (self.kind = "IQA") =>
          \A r \in DOMAIN self.composite_ls :
             LET rec == self.composite_ls[r]
             IN  /\ rec.Composite_pass = (\A i \in DOMAIN rec.passed : rec.passed[i])
                 /\ \A i \in DOMAIN rec.scores :
                       rec.passed[i] = (rec.scores[i] < Brisque_threshold)
    /\ IQADone =>
          \A r \in DOMAIN self.composite_ls :
             LET rec == self.composite_ls[r]
             IN  (\E i \in DOMAIN rec.scores : rec.scores[i] >= Brisque_threshold)
                   => \A i \in DOMAIN rec.image_paths :
                         basename(rec.image_paths[i]) \notin DOMAIN fs[IQADir].files

\* the files a completed save of the running stage must have produced
ProducedFiles ==
    CASE LastStep = "A_save" ->
            [n \in {basename(p) : p \in Range(self.image_paths)} |->
                fs0[self.Image_directory].files[n]]
      [] LastStep = "I_save" ->
            [n \in {basename(rec.image_paths[i]) :
                      rec \in {q \in Range(self.composite_ls) :
                                 \A j \in DOMAIN q.scores :
                                    q.scores[j] < Brisque_threshold},
                      i \in 1..3} |->
                fs[AcqDir].files[n]]
      [] LastStep = "P_save" ->
            [n \in {basename(p) : p \in DOMAIN self.images_dict} |->
                [mode |-> "L", size |-> fs[IQADir].files[n].size,
                 src |-> n, proc |-> <<"median", "iqr", "rescale", "uint8">>]]
      [] LastStep = "E_save" ->
            [n \in {CollapseDoubleSpace(k) : k \in DOMAIN self.composites_im_dict} |->
                self.composites_im_dict[
                    CHOOSE k \in DOMAIN self.composites_im_dict :
                        CollapseDoubleSpace(k) = n]]
      [] LastStep = "D_save" ->
            [n \in {basename(p) : p \in DOMAIN self.defect_images_dict} |->
                self.defect_images_dict[
                    CHOOSE p \in DOMAIN self.defect_images_dict : basename(p) = n]]
      [] OTHER -> EmptyFiles

SaveSteps == {"A_save", "I_save", "P_save", "E_save", "D_save"}

\* C3: when a stage has run to completion against a working directory that
\* an earlier run filled, its output directory holds exactly the files
\* produced from the current input and nothing left over.
C3_DestructiveOverwrite ==
    (LastStep \in SaveSteps /\ pc # "failed") =>
        /\ exists(fs, OutDir(StageOf(LastStep)))
        /\ fs[OutDir(StageOf(LastStep))].files = ProducedFiles

\* every stage wrote over what the earlier run on another input had left
C3_Witness ==
    /\ pc = "done"
    /\ \A d \in StageDirs :
          /\ fs0[d].exists /\ fs0[d].files # EmptyFiles
          /\ fs[d].files # EmptyFiles
          /\ (DOMAIN fs[d].files) \cap (DOMAIN fs0[d].files) = {}

\* C4: when the loaded path set has a key that selects 2 or 4 members, the
\* stage raises AssertionError and the reported list is the members of one
\* offending group, none of which belongs to another group.
C4_GroupingFailure ==
    (/\ LastStep \in {"I_Asses", "P_load", "E_load"}
     /\ \E k \in Keys(self.image_paths) :
           HasSplit(k) /\ Len(corresponding_paths(self.image_paths, k)) \in {2, 4})
    => /\ pc = "failed"
       /\ err.kind = "AssertionError"
       /\ \E k \in Keys(self.image_paths) :
             /\ HasSplit(k)
             /\ Len(corresponding_paths(self.image_paths, k)) # 3
             /\ err.files = corresponding_paths(self.image_paths, k)
             /\ \A p \in Range(err.files) : KeyOf(p) = k

\* the members of key's group in the order of image_paths
MembersInOrder(key) ==
    LET member(p) == p \in Range(corresponding_paths(self.image_paths, key))
    IN  SelectSeq(self.image_paths, member)

\* C5: enrich builds, for every group of 3 single-channel images of one
\* size, one 3-channel image of that size whose channel k is the pixel data
\* of the k-th member in image_paths order.
C5_MergeChannelOrder ==
    (LastStep = "E_enrich" /\ pc = "E_save") =>
        \A key \in Keys(self.image_paths) :
            LET m == MembersInOrder(key)
            IN  /\ Len(m) = 3
                /\ key \in DOMAIN self.composites_im_dict
                /\ self.composites_im_dict[key].mode = "RGB"
                /\ \A k \in 1..3 :
                      /\ self.composites_im_dict[key].bands[k] = ReadFile(fs, m[k])
                      /\ self.composites_im_dict[key].size = ReadFile(fs, m[k]).size

\* a composite whose members were listed in an order that is not the
\* order of their names in Listing
C5_Witness ==
    /\ LastStep = "E_enrich" /\ pc = "E_save"
    /\ \E key \in DOMAIN self.composites_im_dict :
          /\ self.composites_im_dict[key].bands[1].src = n72
          /\ self.composites_im_dict[key].bands[3].src = n705

\* C6: after IQA main() 2.IQA_images holds exactly the basenames of the
\* members of the groups whose three scores are all below the threshold.
C6_IQAOutputSet ==
    IQADone =>
        DOMAIN fs[IQADir].files =
            {basename(rec.image_paths[i]) :
                rec \in {q \in Range(self.composite_ls) :
                           \A j \in DOMAIN q.scores : q.scores[j] < Brisque_threshold},
                i \in 1..3}

\* one group passed and is present, another was at the threshold and is not
C6_Witness ==
    /\ IQADone
    /\ DOMAIN fs[IQADir].files = {nBC1, nBC2, nBC3}
    /\ \E r \in DOMAIN self.composite_ls :
          /\ self.composite_ls[r].scores[1] = Brisque_threshold
          /\ self.composite_ls[r].scores[2] < Brisque_threshold
          /\ self.composite_ls[r].scores[3] < Brisque_threshold

\* the load of a direct load_images(collaborator) call went through the
\* collaborator, whose own load_images did not raise
HandoffDone == pc \in {"returned", "failed"} /\ err.step # "collaborator"

Handoff ==
    /\ ~self.paths_none
    /\ self.image_paths = collab.image_paths
    /\ self.Image_directory = collab.Image_directory
    /\ \A p \in Range(self.image_paths) : p.dir # CanonicalDir(self.kind)

C8_FixedStageSequence ==
    /\ Len(trace) <= Len(StepOrder)
    /\ \A i \in DOMAIN trace : trace[i] = StepOrder[i]
    /\ pc = "done" => trace = StepOrder
    /\ pc \in {"I_load", "P_load", "E_load", "D_load"} =>
          \E i \in DOMAIN trace :
             /\ trace[i] \in SaveSteps
             /\ StageOf(trace[i]) = StageOf(pc) - 1

C8_Witness == pc = "done" /\ Len(trace) = 20

\* C9: when main() of stage k raises or exits, no step of a later stage is
\* executed and the output directories of the later stages stay as they
\* were before the run.
C9_FailureHalts ==
    (err.kind # "none") =>
        /\ \A i \in DOMAIN trace : StageOf(trace[i]) <= StageOf(err.step)
        /\ \A j \in 1..5 :
              j > StageOf(err.step) => fs[OutDir(j)] = fs0[OutDir(j)]
        /\ ~ENABLED Next

\* IQA failed while the later directories held the files of an earlier run
C9_Witness ==
    /\ pc = "failed"
    /\ err.step = "I_Asses"
    /\ fs0[PreDir].files # EmptyFiles
    /\ fs[AcqDir] # fs0[AcqDir]

\* C10: whenever a group of IQA, Preprocess or Enrichment does not select 3
\* members, main() raises before save_images and the stage's output
\* directory is not modified.
C10_GroupSizeAborts ==
    /\ (/\ LastStep \in {"I_Asses", "P_load", "E_load"}
        /\ \E k \in Keys(self.image_paths) :
              HasSplit(k) /\ Len(corresponding_paths(self.image_paths, k)) # 3)
       => /\ pc = "failed"
          /\ fs[OutDir(StageOf(LastStep))] = fs0[OutDir(StageOf(LastStep))]
    /\ (LastStep \in {"I_save", "P_save", "E_save"}) =>
          \A k \in Keys(self.image_paths) :
             HasSplit(k) => Len(corresponding_paths(self.image_paths, k)) = 3

\* IQA raised on a group of 2 and left the stale 2.IQA_images untouched
C10_Witness ==
    /\ pc = "failed"
    /\ err.step = "I_Asses"
    /\ err.kind = "AssertionError"
    /\ Len(err.files) = 2
    /\ fs[IQADir].files # EmptyFiles

\* C11: after DefectDetection main() 5.DefectDetected_images holds exactly
\* one image per loaded input path, under the input's basename, whatever
\* the number of detections above the threshold (zero included).
C11_OneOutputPerInput ==
    (LastStep = "D_save" /\ pc = "done") =>
        DOMAIN fs[DefDir].files = {basename(p) : p \in Range(self.image_paths)}

\* the file name the claim gives the group of key: prefix, one space, suffix
GroupFileName(key) == SplitPrefix(key) \o <<" ">> \o SplitSuffix(key)

\* Enrichment main() has completed
EnrichmentDone == LastStep = "E_save" /\ pc = "D_create"

\* C12: after Enrichment main() on well-formed input 4.Enrichment_images
\* holds exactly one file per group, named prefix + ' ' + suffix, so the
\* number of files is the number of input files divided by 3.
C12_EnrichmentNaming ==
    (EnrichmentDone /\ ThreePerGroup(self.image_paths)) =>
        /\ DOMAIN fs[EnrDir].files =
              {GroupFileName(k) : k \in Keys(self.image_paths)}
        /\ 3 * Cardinality(DOMAIN fs[EnrDir].files) = Len(self.image_paths)

\* two groups of three gave the two files '7 S.png' and 'BC S.png'
C12_Witness ==
    /\ EnrichmentDone
    /\ ThreePerGroup(self.image_paths)
    /\ Len(self.image_paths) = 6
    /\ DOMAIN fs[EnrDir].files =
          {<<"7", " ", "S">> \o Png, <<"B", "C", " ", "S">> \o Png}

\* C20: when the IQA entry of the parameter file has no Brisque_threshold,
\* the factory creates the IQA stage with threshold 70.
C20_DefaultThreshold ==
    (LastStep = "I_create" /\ "Brisque_threshold" \notin DOMAIN params_list) =>
        /\ pc = "I_load"
        /\ self.kind = "IQA"
        /\ self.brisque_threshold = 70

LoadSteps == {"A_load", "I_load", "P_load", "E_load", "D_load"}

\* the names of directory d that a file type of the running stage matches
MatchingFiles(d) ==
    LET types == IF self.kind = "DefectDetection" THEN filetypes_npy ELSE filetypes
    IN  {n \in DOMAIN fs[d].files : \E t \in DOMAIN types : EndsWith(n, types[t])}

\* image_paths lists each matching file of directory d once and nothing else
LoadedFrom(d) ==
    /\ self.Image_directory = d
    /\ \A i \in DOMAIN self.image_paths : self.image_paths[i].dir = d
    /\ {basename(q) : q \in Range(self.image_paths)} = MatchingFiles(d)
    /\ Len(self.image_paths) = Cardinality(MatchingFiles(d))

\* the process exited with status 1 in load_images: no later step ran
ExitedInLoad ==
    /\ pc = "failed"
    /\ err.kind = "SystemExit"
    /\ err.step = LastStep
    /\ fs = fs0
    /\ ~ENABLED NextStage

\* C13: load_images without a collaborator takes the matching files of the
\* stage's canonical input directory when it exists; when it does not, the
\* stage asks for another path, and exits with status 1 before any process
\* or save step when that path does not exist either.
C13_MissingInputDirectory ==
    /\ (LastStep \in LoadSteps \ {"A_load"}) =>
          IF exists(fs, CanonicalDir(self.kind))
          THEN LoadedFrom(CanonicalDir(self.kind))
          ELSE /\ self.Image_directory \in PromptAnswers
               /\ IF exists(fs, self.Image_directory)
                  THEN LoadedFrom(self.Image_directory)
                  ELSE ExitedInLoad
    /\ (LastStep = "A_load") =>
          IF exists(fs, self.Image_directory)
          THEN LoadedFrom(self.Image_directory)
          ELSE self.Image_directory \in PromptAnswers /\ ExitedInLoad

\* Preprocess found neither 2.IQA_images nor the directory it was given
C13_Witness ==
    /\ LastStep = "P_load"
    /\ ~exists(fs, IQADir)
    /\ self.Image_directory = MissingDir
    /\ ExitedInLoad

\* the factory call and the steps of main() of the stage created by first
MainSteps(first) ==
    CASE first = "A_create" -> <<"A_create", "A_load", "A_save">>
      [] first = "I_create" -> <<"I_create", "I_load", "I_Asses", "I_save">>
      [] first = "P_create" -> <<"P_create", "P_load", "P_steps", "P_save">>
      [] first = "E_create" -> <<"E_create", "E_load", "E_enrich", "E_save">>
      [] OTHER -> <<"D_create", "D_load", "D_load_model", "D_detect", "D_save">>

\* C14: main() of every stage executes load, the process step(s) and save,
\* each once and in this order, and no step (save included) is executed
\* after a step of the same main() failed.
C14_StageLifecycle ==
    trace # << >> =>
        /\ Len(trace) <= Len(MainSteps(trace[1]))
        /\ \A i \in DOMAIN trace : trace[i] = MainSteps(trace[1])[i]
        /\ (pc # "failed" /\ ~ENABLED NextStage) => trace = MainSteps(trace[1])
        /\ (err.kind # "none") => (pc = "failed" /\ LastStep = err.step)

\* load_model failed: defect_detection and save_images did not run and the
\* earlier results are still in 5.DefectDetected_images
C14_Witness ==
    /\ trace = <<"D_create", "D_load", "D_load_model">>
    /\ pc = "failed"
    /\ ~ENABLED NextStage
    /\ fs[DefDir].files # EmptyFiles

\* C15: a directory changes only in save_images of the stage it belongs to
\* (1.Acquired_images ... 5.DefectDetected_images), and the input
\* directory a new stage k+1 starts with is the output directory of stage k.
C15_StagedHandoff ==
    [][/\ \A d \in Dirs :
             fs'[d] # fs[d] => (pc \in SaveSteps /\ d = OutDir(StageOf(pc)))
       /\ (pc \in {"I_create", "P_create", "E_create", "D_create"}
              /\ pc' # "failed")
             => self'.Image_directory = OutDir(StageOf(pc) - 1)]_vars

\* IQA replaced the contents of 2.IQA_images and left the files of its
\* input directory and of 3.Preprocessed_images as they were
C15_Witness ==
    /\ LastStep = "I_save"
    /\ fs[IQADir] # fs0[IQADir]
    /\ fs[AcqDir] = fs0[AcqDir] /\ fs[AcqDir].files # EmptyFiles
    /\ fs[PreDir] = fs0[PreDir] /\ fs[PreDir].files # EmptyFiles

\* the image that the step calls of steps[1..i] make of image x
RECURSIVE StepsApplied(_, _, _)
StepsApplied(steps, i, x) ==
    IF i = 0 THEN x
    ELSE LET y == StepsApplied(steps, i - 1, x)
         IN  CASE steps[i] = "step1" -> Preprocess_step1(y)
               [] steps[i] = "step2" -> Preprocess_step2(y)
               [] OTHER -> Preprocess_step3(y)

\* C16: every sequence of calls of the three steps (any subset, any order)
\* after load_images completes without error and leaves images_dict with
\* the loaded key set, each image being the steps' result on that image
\* alone.
C16_StepComposition ==
    /\ pc # "failed"
    /\ DOMAIN self.images_dict = DOMAIN collab.images_dict
    /\ \A p \in DOMAIN self.images_dict :
          self.images_dict[p].im =
              StepsApplied(trace, Len(trace), collab.images_dict[p].im)

\* all elements of the sequence q are the same
Uniform(q) == \A i, j \in DOMAIN q : q[i] = q[j]

\* C18: Preprocess_step3 on an image whose pixels all have one value
\* completes without error and gives an image whose pixels all have one
\* value.
C18_RescaleConstant ==
    (LastStep = "step3" /\ Uniform(self.res)) =>
        /\ pc = "step3"
        /\ Len(self.ima) = Len(self.res)
        /\ Uniform(self.ima)

\* four pixels of value 100 became four pixels of value 255.0
C18_Witness ==
    /\ pc = "step3"
    /\ self.res = <<100, 100, 100, 100>>
    /\ \A i \in 1..4 : self.ima[i].clamp = "high"

\* the clipping limits of the image, times 8, from its sorted pixels
Limits ==
    LET n  == Len(self.arr)
        q1 == IF n = 1 THEN 4 * self.arr[1]
              ELSE LET lo == (n - 1) \div 4
                   IN  (4 - ((n - 1) % 4)) * Kth(self.arr, lo + 1)
                       + ((n - 1) % 4) * Kth(self.arr, IF lo + 2 > n THEN n ELSE lo + 2)
        q3 == IF n = 1 THEN 4 * self.arr[1]
              ELSE LET lo == (3 * (n - 1)) \div 4
                   IN  (4 - ((3 * (n - 1)) % 4)) * Kth(self.arr, lo + 1)
                       + ((3 * (n - 1)) % 4) * Kth(self.arr, IF lo + 2 > n THEN n ELSE lo + 2)
    IN  [lower |-> 2 * q1 - 3 * (q3 - q1), upper |-> 2 * q3 + 3 * (q3 - q1)]

\* C19 as stated: after Preprocess_step2 every pixel v has
\* Q1 - 1.5 * IQR <= v <= Q3 + 1.5 * IQR, and every pixel that was strictly
\* inside that range is unchanged.
C19_Original ==
    (LastStep = "step2") =>
        \A i \in DOMAIN self.res :
            /\ Limits.lower <= 8 * self.res[i]
            /\ 8 * self.res[i] <= Limits.upper
            /\ (Limits.lower < 8 * self.arr[i] /\ 8 * self.arr[i] < Limits.upper)
                  => self.res[i] = self.arr[i]

\* C19 amended: the lower limit holds up to the fraction that storing it in
\* an 8-bit pixel drops: Q1 - 1.5 * IQR - 1 < v <= Q3 + 1.5 * IQR.
C19_IQRClippingBounds ==
    (LastStep = "step2") =>
        \A i \in DOMAIN self.res :
            /\ Limits.lower - 8 < 8 * self.res[i]
            /\ 8 * self.res[i] <= Limits.upper
            /\ (Limits.lower < 8 * self.arr[i] /\ 8 * self.arr[i] < Limits.upper)
                  => self.res[i] = self.arr[i]

\* a pixel 0 was raised to 98 under the limit 98.5 and a pixel 103 was
\* lowered to 102 under the limit 102.5
C19_Witness ==
    /\ LastStep = "step2"
    /\ Limits = [lower |-> 788, upper |-> 820]
    /\ \E i, j \in DOMAIN self.arr :
          /\ self.arr[i] = 0 /\ self.res[i] = 98
          /\ self.arr[j] = 103 /\ self.res[j] = 102

\* both runs have ended
BothEnded == \A r \in {1, 2} : pc[r] \in {"done", "failed"}

\* 1.Acquired_images holds the files neither run's Acquisition produces
MixedAcquired ==
    /\ fs[AcqDir].files # fs[InputDir].files
    /\ fs[AcqDir].files # fs[InputDir2].files

\* a call of run r failed on a file or directory that the other run removed
\* or created
Interfered(r) == err[r].kind \in {"FileNotFoundError", "FileExistsError"}

\* C17: two runs with different inputs on one working directory damage the
\* state only by interleaving: when one run ends before the other starts,
\* 1.Acquired_images ends as the output of the later run and no call fails
\* on a file the other run removed; the witness is the interleaving that
\* ends with a directory equal to neither output and a failed copy.
C17_ConcurrentRuns ==
    (BothEnded /\ Len(trace) = 2) =>
        /\ fs[AcqDir].files =
              fs[IF trace[2] = 1 THEN InputDir ELSE InputDir2].files
        /\ \A r \in {1, 2} : ~Interfered(r)

\* 1.Acquired_images holds 'BC 3Hz S.png' of the first run and '7 1Hz S.png'
\* of the second, and the copy of the first run's IQA failed on a file the
\* second run had removed
C17_Witness ==
    /\ BothEnded
    /\ MixedAcquired
    /\ DOMAIN fs[AcqDir].files = {nBC3, n71}
    /\ err[1] = [step |-> "I_copy", kind |-> "FileNotFoundError", files |-> << >>]

\* a group of the loaded images whose members differ in pixel dimensions
MismatchedGroup ==
    \E p, q \in DOMAIN self.images_dict :
        /\ KeyOf(p) = KeyOf(q)
        /\ self.images_dict[p].size # self.images_dict[q].size

\* C21: when the members of a group do not all have the same pixel
\* dimensions, enrich raises, main() does not reach save_images and
\* 4.Enrichment_images is left as it was: no composite is written.
C21_DimensionMismatch ==
    (self.kind = "Enrichment" /\ "E_enrich" \in Range(trace) /\ MismatchedGroup) =>
        /\ pc = "failed"
        /\ err.step = "E_enrich"
        /\ err.kind = "ValueError"
        /\ "E_save" \notin Range(trace)
        /\ fs[EnrDir] = fs0[EnrDir]

\* enrich raised on two loaded groups, one of them with an image of another
\* size, and the composite of the earlier run is still in place
C21_Witness ==
    /\ pc = "failed"
    /\ err.step = "E_enrich"
    /\ MismatchedGroup
    /\ Cardinality(Keys(self.image_paths)) = 2
    /\ DOMAIN fs[EnrDir].files = {StaleCompositeName, Notes}

\* Asses of the running IQA_Thermo has completed without error
AssesDone == self.kind = "IQA" /\ LastStep = "I_Asses" /\ pc = "I_save"

RECURSIVE ScoreCount(_, _)
\* the number of scores in the records composite_ls[i..]
ScoreCount(composite_ls, i) ==
    IF i > Len(composite_ls) THEN 0
    ELSE Len(composite_ls[i].scores) + ScoreCount(composite_ls, i + 1)

\* C22: after Asses completes without error composite_ls holds one record
\* per distinct key of the loaded paths, every record has 3 image paths,
\* 3 scores and 3 passed flags aligned by index, and the number of recorded
\* scores equals the number of loaded images.
C22_QualityRecordShape ==
    AssesDone =>
        /\ Len(self.composite_ls) = Cardinality(Keys(self.image_paths))
        /\ \A k \in Keys(self.image_paths) :
              \E r \in DOMAIN self.composite_ls :
                 self.composite_ls[r].composite_name = k
        /\ \A r \in DOMAIN self.composite_ls :
              LET rec == self.composite_ls[r]
              IN  /\ Len(rec.image_paths) = 3
                  /\ DOMAIN rec.scores = 1..3
                  /\ DOMAIN rec.passed = 1..3
                  /\ \A i \in 1..3 :
                        rec.passed[i] = (rec.scores[i] < self.brisque_threshold)
        /\ ScoreCount(self.composite_ls, 1) = Len(self.image_paths)

\* C23: after a client_code run in which Acquisition, IQA and Preprocess
\* complete without error, 3.Preprocessed_images holds the file names of
\* 2.IQA_images, these are names of 1.Acquired_images, and the number of
\* files in 2.IQA_images is a multiple of 3.
C23_FileNameConservation ==
    (LastStep = "P_save" /\ pc = "E_create") =>
        /\ DOMAIN fs[PreDir].files = DOMAIN fs[IQADir].files
        /\ DOMAIN fs[IQADir].files \subseteq DOMAIN fs[AcqDir].files
        /\ Cardinality(DOMAIN fs[IQADir].files) % 3 = 0

\* the second call of main() on the product is running or has ended
SecondCall ==
    /\ trace # << >>
    /\ Cardinality({i \in DOMAIN trace : trace[i] = StepOrder[StepIndex(trace[1]) + 1]}) = 2

\* C24: main() called twice on one IQA, Preprocess, Enrichment or
\* DefectDetection product with an unchanged input directory succeeds both
\* times, the second load leaves every path in image_paths once, and the
\* second save leaves the output directory as the first call left it.
C24_RerunIdempotent ==
    (SecondCall /\ trace[1] # "A_create") =>
        /\ pc # "failed"
        /\ \A i, j \in DOMAIN self.image_paths :
              self.image_paths[i] = self.image_paths[j] => i = j
        /\ LastStep \in SaveSteps => fs = fs0

\* C25: save_images of a stage, the only step of main() that changes the
\* file system, leaves the directory the stage loaded its images from as it
\* was, also when that directory is the stage's own output directory.
C25_InputsPreserved ==
    [][(pc \in SaveSteps) =>
          (fs'[self.Image_directory] = fs[self.Image_directory])]_vars

\* C26: after a call of load_images(collaborator) of IQA, Preprocess,
\* Enrichment or DefectDetection, image_paths is a list, and it is either
\* the collaborator's list or made of paths of the stage's own input
\* directory, whatever the collaborator's load_images returns or raises.
C26_SingleSourceOfPaths ==
    (pc \in {"returned", "failed"}) =>
        /\ ~self.paths_none
        /\ \/ self.image_paths = collab.image_paths
           \/ \A q \in Range(self.image_paths) : q.dir = self.Image_directory

\* the files the save that just ran had to write, whatever directory the
\* stage loaded from: name |-> content
WrittenFiles ==
    IF LastStep \in {"A_save", "I_save"}
    THEN LET paths == IF LastStep = "A_save" THEN self.image_paths
                      ELSE PassingPaths(self.composite_ls, 1)
         IN  [n \in {basename(q) : q \in Range(paths)} |->
                LET q == CHOOSE x \in Range(paths) : basename(x) = n
                IN  IF FileExists(fs, q) THEN ReadFile(fs, q) ELSE None]
    ELSE IF LastStep = "P_save"
    THEN [n \in {basename(q) : q \in DOMAIN self.images_dict} |->
            ToSavedImage(self.images_dict[
                CHOOSE q \in DOMAIN self.images_dict : basename(q) = n])]
    ELSE ProducedFiles

\* C27: in every save_images the removals precede the writes: a save that
\* completes leaves every file it wrote in the output directory, and after
\* a save, failed partway or not, the directory holds only files this save
\* wrote and none of its earlier contents.
C27_DeleteBeforeWrite ==
    (LastStep \in SaveSteps) =>
        LET d == OutDir(StageOf(LastStep))
        IN  /\ (pc # "failed") => DOMAIN WrittenFiles \subseteq DOMAIN fs[d].files
            /\ \A n \in DOMAIN fs[d].files :
                  /\ n \in DOMAIN WrittenFiles
                  /\ fs[d].files[n] = WrittenFiles[n]

\* save_images of Acquisition failed at its first copy, after it had
\* removed the files and the notes of the earlier run
C27_Witness ==
    /\ LastStep = "A_save" /\ pc = "failed"
    /\ self.image_paths # << >>
    /\ Notes \in DOMAIN fs0[AcqDir].files
    /\ fs[AcqDir].files = EmptyFiles

\* C28: after load_images of a new Enrichment_Thermo completes without
\* error the keys of images_dict are the loaded paths, and when enrich
\* completes every composite is built from three loaded images and there
\* are len(image_paths)/3 composites.
C28_EnrichmentConsistency ==
    /\ (LastStep = "E_load" /\ pc = "E_enrich") =>
          DOMAIN self.images_dict = Range(self.image_paths)
    /\ (LastStep = "E_enrich" /\ pc = "E_save") =>
          /\ \A k \in DOMAIN self.composites_im_dict :
                /\ Len(self.composites_im_dict[k].bands) = 3
                /\ \A i \in 1..3 : self.composites_im_dict[k].bands[i] # None
          /\ 3 * Cardinality(DOMAIN self.composites_im_dict) = Len(self.image_paths)

\* the members the two list comprehensions select for key k
GroupOf(k) == Range(corresponding_paths(self.image_paths, k))

\* some key of the loaded paths does not split or does not select 3 paths
BadGroup ==
    \E k \in Keys(self.image_paths) : ~HasSplit(k) \/ Cardinality(GroupOf(k)) # 3

\* the score Asses recorded for path q
ScoreOf(q) ==
    LET r == CHOOSE x \in DOMAIN self.composite_ls :
                 q \in Range(self.composite_ls[x].image_paths)
        i == CHOOSE j \in 1..3 : self.composite_ls[r].image_paths[j] = q
    IN  self.composite_ls[r].scores[i]

\* C29: the outcome of IQA and of Enrichment is a function of image_paths
\* and of the scores alone, the same for every order in which the group
\* keys are iterated: IQA fails exactly when some group is not of 3 and
\* otherwise writes the members of the groups whose scores all pass;
\* Enrichment fails exactly when a group's images differ in size and
\* otherwise writes, under the collapsed key, the merge of each group's
\* images in image_paths order.
C29_GroupOrderIndependence ==
    /\ (LastStep = "I_Asses") => ((pc = "failed") <=> BadGroup)
    /\ (LastStep = "I_save") =>
          /\ pc # "failed"
          /\ DOMAIN fs[IQADir].files =
                {basename(q) : q \in
                    UNION {GroupOf(k) : k \in
                        {x \in Keys(self.image_paths) :
                            \A m \in GroupOf(x) :
                                ScoreOf(m) < self.brisque_threshold}}}
    /\ (LastStep = "E_enrich") =>
          /\ (pc = "failed") <=>
                \E k \in Keys(self.image_paths) : \E a, b \in GroupOf(k) :
                    self.images_dict[a].size # self.images_dict[b].size
          /\ (pc # "failed") =>
                /\ DOMAIN self.composites_im_dict = Keys(self.image_paths)
                /\ \A k \in Keys(self.image_paths) :
                      self.composites_im_dict[k].bands =
                          [i \in 1..3 |->
                              self.images_dict[
                                  corresponding_paths(self.image_paths, k)[i]]]
    /\ (LastStep = "E_save") =>
          /\ pc # "failed"
          /\ DOMAIN fs[EnrDir].files =
                {CollapseDoubleSpace(k) : k \in Keys(self.image_paths)}

\* Asses iterated the key of the 7 group before the key of the BC group,
\* against the order of the listing, and all six images were written
C29_Witness ==
    /\ LastStep = "I_save"
    /\ Len(self.composite_ls) = 2
    /\ self.composite_ls[1].composite_name = StripFreq(n71)
    /\ self.composite_ls[2].composite_name = StripFreq(nBC1)
    /\ self.image_paths[1].name = nBC1
    /\ Cardinality(DOMAIN fs[IQADir].files) = 6
====
